---- MODULE Spec2Model ----
(***************************************************************************)
(* Model of the Lua binding layer of src/PiLuaAPI.cpp: ObjectWrapper, the  *)
(* handle that script code holds over a simulation Object, its onDelete    *)
(* subscription, and UserDataSerialize / UserDataUnserialize.              *)
(*                                                                         *)
(* Objects are numbered: object 1 is Pi::player (a Ship),                    *)
(* object 2 is a SpaceStation, the others are Ships that SpawnShip makes.  *)
(* Lua strings are tuples of one-character strings.                        *)
(*                                                                         *)
(* EquipSet of src/ShipType.h, the equipment fitted to a ship's slots, is  *)
(* modelled beside it and has a specification of its own, SpecEquip.       *)
(***************************************************************************)
EXTENDS Integers, Sequences, FiniteSets, TLC

\* ------------------------------------------------------------------ bounds
MaxHandles == 2
\* the largest cargo equipSlotCapacity of a ship type
MaxSlotSize == 2

\* the scenario: the player, one station, and one ship for SpawnShip to make
Objects == 1..3
Handles == 1..MaxHandles
Null == 0
PlayerObj == 1
StationObj == 2

\* ------------------------------------------------------- the Object classes
\* Object::Type as far as this file uses it (Is(Object::BODY), SHIP, SPACESTATION)
ObjectTypes == {"BODY", "SHIP", "SPACESTATION"}

\* the dynamic class of each object: Pi::player and spawned ships are Ships
ClassOf(o) == IF o = StationObj THEN "SPACESTATION" ELSE "SHIP"

\* Object::IsType: a Ship and a SpaceStation are both Bodies
IsType(o, t) == t = ClassOf(o) \/ t = "BODY"

\* Body::GetLabel
LabelOf(o) == IF o = PlayerObj THEN "player" ELSE IF o = StationObj THEN "station" ELSE "ship"

\* ------------------------------------------------------------- characters
DigitChars == <<"0", "1", "2", "3", "4", "5", "6", "7", "8", "9">>
NL == "\n"

RECURSIVE Decimal(_)
\* what printf's %d writes
Decimal(n) ==
    IF n < 0 THEN <<"-">> \o Decimal(0 - n)
    ELSE IF n < 10 THEN <<DigitChars[n + 1]>>
    ELSE Decimal(n \div 10) \o <<DigitChars[(n % 10) + 1]>>

IsDigit(c) == \E i \in 1..10 : DigitChars[i] = c
DigitVal(c) == (CHOOSE i \in 1..10 : DigitChars[i] = c) - 1
IsSpace(c) == c \in {" ", NL, "\t"}

RECURSIVE SkipSpace(_)
SkipSpace(s) == IF s # <<>> /\ IsSpace(Head(s)) THEN SkipSpace(Tail(s)) ELSE s

RECURSIVE AtoiDigits(_, _)
AtoiDigits(s, acc) ==
    IF s # <<>> /\ IsDigit(Head(s)) THEN AtoiDigits(Tail(s), acc * 10 + DigitVal(Head(s)))
    ELSE acc

\* C atoi: leading white space, an optional sign, then digits up to the first
\* character that is no digit; 0 when there are none
atoi(s) ==
    LET t == SkipSpace(s) IN
    IF t # <<>> /\ Head(t) = "-" THEN 0 - AtoiDigits(Tail(t), 0)
    ELSE IF t # <<>> /\ Head(t) = "+" THEN AtoiDigits(Tail(t), 0)
    ELSE AtoiDigits(t, 0)

\* std::string::substr(pos, len) and substr(pos), 0-based
substr(s, pos, len) ==
    LET last == IF pos + len < Len(s) THEN pos + len ELSE Len(s)
    IN IF pos >= Len(s) THEN <<>> ELSE SubSeq(s, pos + 1, last)
substrFrom(s, pos) == IF pos >= Len(s) THEN <<>> ELSE SubSeq(s, pos + 1, Len(s))

\* size_t idx = atoi(...): a negative int wraps to the top of size_t's range.
\* SizeTRange stands for 2^64, which TLC's integers cannot hold; all that the
\* program does with the wrapped value is use it as an index.
SizeTRange == 1000000
ToSizeT(v) == IF v < 0 THEN SizeTRange + v ELSE v

\* the type tags, each with its newline
OWTag == <<"O", "b", "j", "e", "c", "t", "W", "r", "a", "p", "p", "e", "r", NL>>
SBodyPathTag == <<"S", "B", "o", "d", "y", "P", "a", "t", "h", NL>>
SysLocTag == <<"S", "y", "s", "L", "o", "c", NL>>
BogusTag == <<"B", "o", "g", "u", "s", NL>>

\* ------------------------------------------- the hierarchical value kinds
\* SysLoc: a sector/system coordinate triple; SBodyPath: a SysLoc plus a path
\* through the system's body tree.  Both are immutable values.
SysLocs == { [sectorX |-> x, sectorY |-> 0, systemNum |-> 3] : x \in {0 - 1} }
SBodyPaths ==
    { [sectorX |-> 12, sectorY |-> 0, systemNum |-> 3, elem |-> e] : e \in {<<>>, <<0, 2>>} }

\* Pi::currentSystem->GetPathOf(sbody, path) for the station's SBody
PathOfStation == [sectorX |-> 12, sectorY |-> 0, systemNum |-> 3, elem |-> <<0, 2>>]

RECURSIVE TakeLine(_)
TakeLine(s) == IF s = <<>> \/ Head(s) = NL THEN <<>> ELSE <<Head(s)>> \o TakeLine(Tail(s))
RECURSIVE DropLine(_)
DropLine(s) == IF s = <<>> THEN <<>> ELSE IF Head(s) = NL THEN Tail(s) ELSE DropLine(Tail(s))

\* Serializer::Writer / Reader as the payload grammar describes them: each
\* structural field as decimal text followed by the field separator
WrInt(n) == Decimal(n) \o <<NL>>
RdInt(s) == atoi(TakeLine(s))

RECURSIVE WrElems(_)
WrElems(e) == IF e = <<>> THEN <<>> ELSE WrInt(Head(e)) \o WrElems(Tail(e))
RECURSIVE RdElems(_, _)
RdElems(s, n) == IF n <= 0 THEN <<>> ELSE <<RdInt(s)>> \o RdElems(DropLine(s), n - 1)

SysLocSerialize(v) == WrInt(v.sectorX) \o WrInt(v.sectorY) \o WrInt(v.systemNum)
SysLocUnserialize(s) ==
    [sectorX |-> RdInt(s), sectorY |-> RdInt(DropLine(s)),
     systemNum |-> RdInt(DropLine(DropLine(s)))]

SBodyPathSerialize(v) == SysLocSerialize(v) \o WrInt(Len(v.elem)) \o WrElems(v.elem)
SBodyPathUnserialize(s) ==
    LET r3 == DropLine(DropLine(DropLine(s))) IN
    [sectorX |-> RdInt(s), sectorY |-> RdInt(DropLine(s)),
     systemNum |-> RdInt(DropLine(DropLine(s))),
     elem |-> RdElems(DropLine(r3), RdInt(r3))]

\* ------------------------------------------------------- equipment types
\* Equip::Slot and Equip::Type (EquipType.h): two slots, cargo that goes into
\* the cargo slot and a drive that goes into the engine slot
EquipSlots == {"SLOT_CARGO", "SLOT_ENGINE"}
EquipNone == "NONE"
EquipTypes == {EquipNone, "HYDROGEN", "METAL_ORE", "DRIVE_CLASS1"}
\* EquipType::types[e].slot
SlotOf(e) == IF e = "DRIVE_CLASS1" THEN "SLOT_ENGINE" ELSE "SLOT_CARGO"
\* ShipType::types: a ship type is told by its equipSlotCapacity; a ship has
\* room for one drive at most
ShipTypes == {t \in [EquipSlots -> 0..MaxSlotSize] : t["SLOT_ENGINE"] <= 1}
\* the values of num that callers pass: negative, none, some, more than fit
Nums == (0 - 1)..(MaxSlotSize + 1)

\* ---------------------------------------------------------------- state
VARIABLES
    alive,       \* per object: "unborn", "live" or "dead" (destroyed, memory freed)
    money,       \* Ship::m_money, in hundredths
    dockedWith,  \* Ship::GetDockedWith(): the station, or Null
    adverts,     \* SpaceStation bulletin board: the luaRefs of its adverts
    slots,       \* Object::onDelete: the connected handles, in connection order
    handles,     \* per ObjectWrapper: st ("none", "alive", "freed"), m_obj, m_delCon
    g_bodies,    \* the Serializer's body index: id i is g_bodies[i + 1]
    issued,      \* history: the payload each object was last encoded to in this pass
    ret,         \* the outcome of the last call from script code
    crashed      \* the process has died (a failed assert, or a wild access)

vars == <<alive, money, dockedWith, adverts, slots, handles, g_bodies, issued, ret, crashed>>

VARIABLES
    equip,         \* EquipSet::equip: per slot, the vector of fitted types
    slotCapacity,  \* the size each vector was last given
    eret           \* the outcome of the last call on the EquipSet

equipVars == <<equip, slotCapacity, eret>>
allVars == <<vars, equipVars>>

\* the record of a call on the EquipSet: its arguments, what it returned and
\* whether it emitted onChange
ERet(op, s, idx, e, num, val, emitted) ==
    [op |-> op, s |-> s, idx |-> idx, e |-> e, num |-> num, val |-> val, emitted |-> emitted]
NoERet == ERet("none", "", 0, EquipNone, 0, 0, FALSE)

NoHandle == [st |-> "none", m_obj |-> Null, m_delCon |-> Null]
NoPayload == <<>>

\* the outcome of a call: op, the handle it was called on, its other argument,
\* the number of Lua results (or 1 for a returned C++ value), the value, the
\* error reported to the caller, the Object* handed to a constructor, the handle
\* made, the objects read
Ret(op, h, arg, n, val, err, obj, made, reads) ==
    [op |-> op, h |-> h, arg |-> arg, n |-> n, val |-> val, err |-> err, obj |-> obj,
     made |-> made, reads |-> reads]
NoArg == <<>>
NoRet == Ret("none", 0, NoArg, 0, <<>>, "", Null, 0, {})

Init ==
    /\ alive = [o \in Objects |-> IF o \in {PlayerObj, StationObj} THEN "live" ELSE "unborn"]
    /\ money = [o \in Objects |-> 0]
    /\ dockedWith = [o \in Objects |-> Null]
    /\ adverts = {}
    /\ slots = [o \in Objects |-> <<>>]
    /\ handles = [h \in Handles |-> NoHandle]
    /\ g_bodies = <<>>
    /\ issued = [o \in Objects |-> NoPayload]
    /\ ret = NoRet
    /\ crashed = FALSE
    \* EquipSet() {}: every vector is empty
    /\ equip = [s \in EquipSlots |-> <<>>]
    /\ slotCapacity = [s \in EquipSlots |-> 0]
    /\ eret = NoERet

Live(o) == o # Null /\ alive[o] = "live"
Exists(h) == handles[h].st = "alive"
\* ObjectWrapper's notion of a live handle: m_obj != 0
IsLive(h) == handles[h].m_obj # Null
\* m_obj points at freed memory
Dangling(h) == handles[h].m_obj # Null /\ alive[handles[h].m_obj] = "dead"

FreeHandles == {h \in Handles : handles[h].st = "none"}
\* the next ObjectWrapper that new allocates
NewHandle == CHOOSE h \in FreeHandles : \A k \in FreeHandles : h <= k

\* m_delCon of a handle whose constructor connected through a bad pointer
Wild == 0 - 1

\* sigc::connection::disconnect on the pair (handles, slots): the slot leaves the
\* signal it is connected to; a second disconnect finds the connection empty
Disconnect(st, h) ==
    LET c == st.hs[h].m_delCon IN
    IF c \in Objects
    THEN [hs |-> [st.hs EXCEPT ![h].m_delCon = Null],
          sl |-> [st.sl EXCEPT ![c] = SelectSeq(@, LAMBDA k : k # h)]]
    ELSE [hs |-> [st.hs EXCEPT ![h].m_delCon = Null], sl |-> st.sl]

\* OnDelete that only disconnects and forgets to clear m_obj
OnDelete_keepsObj(st, h) == Disconnect(st, h)

\* OnDelete that empties the whole signal instead of its own connection
OnDelete_clearsSignal(st, h) ==
    LET c == st.hs[h].m_delCon IN
    [hs |-> [st.hs EXCEPT ![h].m_obj = Null, ![h].m_delCon = Null],
     sl |-> IF c \in Objects THEN [st.sl EXCEPT ![c] = <<>>] ELSE st.sl]

\* ObjectWrapper::OnDelete
OnDelete(st, h) == Disconnect([hs |-> [st.hs EXCEPT ![h].m_obj = Null], sl |-> st.sl], h)

\* onDelete.emit() of object o: the slots connected when the emission starts are
\* called in connection order; one that was disconnected meanwhile is skipped.
\* st.log lists the handles whose OnDelete was called, in call order.
RECURSIVE Emit(_, _, _)
Emit(st, order, o) ==
    IF order = <<>> THEN st
    ELSE LET h == Head(order)
             connected == \E i \in 1..Len(st.sl[o]) : st.sl[o][i] = h
             r == OnDelete([hs |-> st.hs, sl |-> st.sl], h)
         IN Emit(IF connected
                 THEN [hs |-> r.hs, sl |-> r.sl, log |-> Append(st.log, h)]
                 ELSE st, Tail(order), o)

\* a constructor whose connect replaces the slots already connected to o
ObjectWrapper_replacesSlots(h, o, valid) ==
    /\ handles' = [handles EXCEPT ![h] = [st |-> "alive", m_obj |-> o, m_delCon |-> o]]
    /\ slots' = IF o \in Objects THEN [slots EXCEPT ![o] = <<h>>] ELSE slots
    /\ crashed' = FALSE

\* ObjectWrapper::ObjectWrapper(Object *o), building handle h; valid says that o
\* points at a live object.  Then it stores o and connects OnDelete to
\* o->onDelete.  With o null or freed, o->onDelete is a wild access: the process
\* dies, or it goes on with m_obj = o and a connection into memory that holds no
\* signal.
ObjectWrapper(h, o, valid) ==
    IF valid
    THEN /\ handles' = [handles EXCEPT ![h] = [st |-> "alive", m_obj |-> o, m_delCon |-> o]]
         /\ slots' = [slots EXCEPT ![o] = Append(@, h)]
         /\ crashed' = FALSE
    ELSE \/ /\ crashed' = TRUE
            /\ UNCHANGED <<handles, slots>>
         \/ /\ crashed' = FALSE
            /\ handles' = [handles EXCEPT ![h] = [st |-> "alive", m_obj |-> o, m_delCon |-> Wild]]
            /\ UNCHANGED slots

\* Is that answers for Object::BODY without looking at m_obj
Is_bodyUnchecked(h, t) == t = "BODY" \/ (handles[h].m_obj # Null /\ IsType(handles[h].m_obj, t))

\* ObjectWrapper::Is: m_obj && m_obj->IsType(t)
Is(h, t) == handles[h].m_obj # Null /\ IsType(handles[h].m_obj, t)
\* the objects a call to Is dereferences
IsReads(h) == IF handles[h].m_obj # Null THEN {handles[h].m_obj} ELSE {}

\* a method called through a dangling m_obj may die on the access
Crash(op, h) ==
    /\ crashed' = TRUE
    /\ ret' = Ret(op, h, NoArg, 0, <<>>, "crash", Null, 0, IsReads(h))
    /\ UNCHANGED <<alive, money, dockedWith, adverts, slots, handles, g_bodies, issued>>

\* script code and the simulation run on one thread: a call is made when the
\* results of the call before it have been taken
Idle == ~crashed /\ ret = NoRet
Callable(h) == Idle /\ Exists(h)

\* script code takes the results of the last call off the Lua stack
TakeResults ==
    /\ UNCHANGED equipVars
    /\ ~crashed
    /\ ret # NoRet
    /\ ret' = NoRet
    /\ UNCHANGED <<alive, money, dockedWith, adverts, slots, handles, g_bodies, issued, crashed>>

\* ------------------------------------------------- the simulation's own steps
\* the simulation deletes object o: ~Object emits onDelete, then the memory is
\* freed.  Ships docked with it are undocked by the simulation.  The deletion is
\* recorded with the handles whose OnDelete it called.
DestroyObject(o) ==
    /\ UNCHANGED equipVars
    /\ Idle
    /\ Live(o)
    /\ o # PlayerObj
    /\ LET st == Emit([hs |-> handles, sl |-> slots, log |-> <<>>], slots[o], o) IN
         /\ handles' = st.hs
         /\ slots' = [st.sl EXCEPT ![o] = <<>>]
         /\ ret' = Ret("~Object", 0, NoArg, 0, st.log, "", o, 0, {})
    /\ alive' = [alive EXCEPT ![o] = "dead"]
    /\ dockedWith' = [s \in Objects |-> IF Live(s) /\ s # o /\ dockedWith[s] = o
                                        THEN Null ELSE dockedWith[s]]
    /\ UNCHANGED <<money, adverts, g_bodies, issued, crashed>>

\* a ship docks with the station, or leaves it
SetDocked(s) ==
    /\ UNCHANGED equipVars
    /\ Idle
    /\ Live(s) /\ ClassOf(s) = "SHIP"
    /\ \/ dockedWith[s] = Null /\ Live(StationObj)
          /\ dockedWith' = [dockedWith EXCEPT ![s] = StationObj]
       \/ dockedWith[s] # Null
          /\ dockedWith' = [dockedWith EXCEPT ![s] = Null]
    /\ ret' = NoRet
    /\ UNCHANGED <<alive, money, adverts, slots, handles, g_bodies, issued, crashed>>

\* a destructor that leaves the connection in place
DestroyHandle_noDisconnect(h) ==
    /\ UNCHANGED equipVars
    /\ Callable(h)
    /\ handles' = [handles EXCEPT ![h] = [st |-> "freed", m_obj |-> Null, m_delCon |-> Null]]
    /\ ret' = Ret("~ObjectWrapper", h, NoArg, 0, handles[h].m_delCon, "", handles[h].m_obj, 0, {})
    /\ UNCHANGED <<alive, money, dockedWith, adverts, slots, g_bodies, issued, crashed>>

\* a destructor that disconnects through m_obj, which a detached handle no
\* longer has
DestroyHandle_viaObj(h) ==
    /\ UNCHANGED equipVars
    /\ Callable(h)
    /\ IF handles[h].m_obj = Null
       THEN /\ crashed' = TRUE
            /\ ret' = Ret("~ObjectWrapper", h, NoArg, 0, <<>>, "crash", Null, 0, {})
            /\ UNCHANGED <<handles, slots>>
       ELSE /\ LET st == Disconnect([hs |-> handles, sl |-> slots], h) IN
                 /\ handles' = [st.hs EXCEPT ![h] = [st |-> "freed", m_obj |-> Null, m_delCon |-> Null]]
                 /\ slots' = st.sl
            /\ ret' = Ret("~ObjectWrapper", h, NoArg, 0, handles[h].m_delCon, "",
                          handles[h].m_obj, 0, {})
            /\ UNCHANGED crashed
    /\ UNCHANGED <<alive, money, dockedWith, adverts, g_bodies, issued>>

\* the Lua garbage collector reclaims handle h: ObjectWrapper::~ObjectWrapper.
\* Disconnecting a connection into freed memory is a wild access.  The call is
\* recorded with the m_obj and the m_delCon the handle had.
DestroyHandle(h) ==
    /\ UNCHANGED equipVars
    /\ Callable(h)
    /\ \/ /\ handles[h].m_delCon = Wild
          /\ crashed' = TRUE
          /\ ret' = Ret("~ObjectWrapper", h, NoArg, 0, <<>>, "crash", Null, 0, {})
          /\ UNCHANGED <<handles, slots>>
       \/ /\ LET st == Disconnect([hs |-> handles, sl |-> slots], h) IN
               /\ handles' = [st.hs EXCEPT ![h] = [st |-> "freed", m_obj |-> Null, m_delCon |-> Null]]
               /\ slots' = st.sl
          /\ ret' = Ret("~ObjectWrapper", h, NoArg, 0, handles[h].m_delCon, "",
                        handles[h].m_obj, 0, {})
          /\ UNCHANGED crashed
    /\ UNCHANGED <<alive, money, dockedWith, adverts, g_bodies, issued>>

\* ------------------------------------------------ the methods of ObjectWrapper
Quiet == UNCHANGED <<alive, money, dockedWith, adverts, slots, handles, g_bodies, issued, crashed>>

\* ObjectWrapper::IsBody
IsBody(h) ==
    /\ UNCHANGED equipVars
    /\ Callable(h)
    /\ \/ Dangling(h) /\ Crash("IsBody", h)
       \/ /\ ret' = Ret("IsBody", h, NoArg, 1, Is(h, "BODY"), "", Null, 0, IsReads(h))
          /\ Quiet

\* ObjectWrapper::GetMoney: 0.01 * s->GetMoney(), given here in hundredths
GetMoney(h) ==
    /\ UNCHANGED equipVars
    /\ Callable(h)
    /\ \/ Dangling(h) /\ Crash("GetMoney", h)
       \/ /\ ret' = Ret("GetMoney", h, NoArg, 1,
                        IF Is(h, "SHIP") THEN money[handles[h].m_obj] ELSE 0,
                        "", Null, 0, IsReads(h))
          /\ Quiet

\* ObjectWrapper::SetMoney(m), m a whole number: s->SetMoney((Sint64)(m*100.0))
SetMoney(h, m) ==
    /\ UNCHANGED equipVars
    /\ Callable(h)
    /\ \/ Dangling(h) /\ Crash("SetMoney", h)
       \/ /\ money' = IF Is(h, "SHIP") THEN [money EXCEPT ![handles[h].m_obj] = m * 100]
                      ELSE money
          /\ ret' = Ret("SetMoney", h, m, 0, <<>>, "", Null, 0, IsReads(h))
          /\ UNCHANGED <<alive, dockedWith, adverts, slots, handles, g_bodies, issued, crashed>>

\* ObjectWrapper::GetLabel
GetLabel(h) ==
    /\ UNCHANGED equipVars
    /\ Callable(h)
    /\ \/ Dangling(h) /\ Crash("GetLabel", h)
       \/ /\ ret' = Ret("GetLabel", h, NoArg, 1,
                        IF Is(h, "BODY") THEN LabelOf(handles[h].m_obj) ELSE "",
                        "", Null, 0, IsReads(h))
          /\ Quiet

\* ObjectWrapper::SpaceStationAddAdvert
SpaceStationAddAdvert(h, luaRef) ==
    /\ UNCHANGED equipVars
    /\ Callable(h)
    /\ \/ Dangling(h) /\ Crash("SpaceStationAddAdvert", h)
       \/ /\ adverts' = IF Is(h, "SPACESTATION") THEN adverts \cup {luaRef} ELSE adverts
          /\ ret' = Ret("SpaceStationAddAdvert", h, luaRef, 0, <<>>, "", Null, 0, IsReads(h))
          /\ UNCHANGED <<alive, money, dockedWith, slots, handles, g_bodies, issued, crashed>>

\* ObjectWrapper::SpaceStationRemoveAdvert
SpaceStationRemoveAdvert(h, luaRef) ==
    /\ UNCHANGED equipVars
    /\ Callable(h)
    /\ \/ Dangling(h) /\ Crash("SpaceStationRemoveAdvert", h)
       \/ /\ adverts' = IF Is(h, "SPACESTATION") THEN adverts \ {luaRef} ELSE adverts
          /\ ret' = Ret("SpaceStationRemoveAdvert", h, luaRef, 0, <<>>, "", Null, 0, IsReads(h))
          /\ UNCHANGED <<alive, money, dockedWith, slots, handles, g_bodies, issued, crashed>>

\* ObjectWrapper::GetSBody: only the station has an SBody
GetSBody(h) ==
    /\ UNCHANGED equipVars
    /\ Callable(h)
    /\ \/ Dangling(h) /\ Crash("GetSBody", h)
       \/ /\ ret' = IF Is(h, "BODY") /\ handles[h].m_obj = StationObj
                    THEN Ret("GetSBody", h, NoArg, 1, PathOfStation, "", Null, 0, IsReads(h))
                    ELSE Ret("GetSBody", h, NoArg, 0, <<>>, "", Null, 0, IsReads(h))
          /\ Quiet

\* a new wrapper built over the ship itself
DockedTarget_self(h) == handles[h].m_obj

\* the object the new wrapper is built over:
\* static_cast<Ship*>(m_obj)->GetDockedWith()
DockedTarget(h) == dockedWith[handles[h].m_obj]

\* ObjectWrapper::GetDockedWith
GetDockedWith(h) ==
    /\ UNCHANGED equipVars
    /\ Callable(h)
    /\ \/ Dangling(h) /\ Crash("GetDockedWith", h)
       \/ IF Is(h, "SHIP") /\ dockedWith[handles[h].m_obj] # Null
          THEN /\ FreeHandles # {}
               /\ ObjectWrapper(NewHandle, DockedTarget(h), Live(DockedTarget(h)))
               /\ ret' = IF crashed'
                         THEN Ret("GetDockedWith", h, NoArg, 0, <<>>, "crash",
                                  DockedTarget(h), 0, IsReads(h))
                         ELSE Ret("GetDockedWith", h, NoArg, 1, <<>>, "",
                                  DockedTarget(h), NewHandle, IsReads(h))
               /\ UNCHANGED <<alive, money, dockedWith, adverts, g_bodies, issued>>
          ELSE /\ ret' = Ret("GetDockedWith", h, NoArg, 0, <<>>, "", Null, 0, IsReads(h))
               /\ Quiet

\* ------------------------------------------------------------ the Serializer
\* Serializer::LookupBody(Body*): the id already given to b in this pass, or the
\* next unused id, which it then records
InIndex(gb, b) == \E i \in 1..Len(gb) : gb[i] = b
LookupBodyId(gb, b) ==
    IF InIndex(gb, b) THEN (CHOOSE i \in 1..Len(gb) : gb[i] = b) - 1 ELSE Len(gb)
LookupBodyRecord(gb, b) == IF InIndex(gb, b) THEN gb ELSE Append(gb, b)

\* Serializer::LookupBody(size_t): the body with that id, or none for an id
\* this pass never gave out
LookupBodyAt(gb, idx) == IF idx < Len(gb) THEN gb[idx + 1] ELSE Null

\* the id table is emptied when a save or load pass starts
ResetRegistry ==
    /\ UNCHANGED equipVars
    /\ Idle
    /\ g_bodies # <<>>
    /\ g_bodies' = <<>>
    /\ issued' = [o \in Objects |-> NoPayload]
    /\ ret' = NoRet
    /\ UNCHANGED <<alive, money, dockedWith, adverts, slots, handles, crashed>>

\* ------------------------------------------------------- UserDataSerialize
\* the wrapper's own address cast to Body*, in place of its m_obj
SerializeTarget_wrapper(h) == h

\* the object whose id line 128 looks up: the wrapper's m_obj
SerializeTarget(h) == handles[h].m_obj

\* the text of a format without the last newline, "ObjectWrapper\n%d"
OWPayload_noNewline(id) == OWTag \o Decimal(id)

\* the text snprintf writes for an ObjectWrapper
OWPayload(id) == OWTag \o Decimal(id) \o <<NL>>

\* the Lua values script code may hand to UserDataSerialize
LuaValues ==
    {[kind |-> "ObjectWrapper", v |-> [h |-> k]] : k \in {k \in Handles : Exists(k)}}
    \cup {[kind |-> "SBodyPath", v |-> p] : p \in SBodyPaths}
    \cup {[kind |-> "SysLoc", v |-> l] : l \in SysLocs}
    \cup {[kind |-> "SoundEvent", v |-> [h |-> 0]]}
    \cup {[kind |-> "number", v |-> [h |-> 0]]}

\* an unknown userdata answered with an empty string
UnknownUserdata_emptyString(x) == Ret("UserDataSerialize", 0, x, 1, <<>>, "", Null, 0, {})

\* what the call gives back for a userdata of none of the three types:
\* Error("Tried to serialize unknown userdata type."); return 0
UnknownUserdata(x) == Ret("UserDataSerialize", 0, x, 0, <<>>, "Error", Null, 0, {})

UserDataSerialize(x) ==
    /\ UNCHANGED equipVars
    /\ Idle
    /\ IF x.kind = "number"
       THEN \* luaL_checktype(L, 1, LUA_TUSERDATA) raises a Lua error
            /\ ret' = Ret("UserDataSerialize", 0, x, 0, <<>>, "luaL_checktype", Null, 0, {})
            /\ Quiet
       ELSE IF x.kind = "ObjectWrapper"
       THEN \/ Dangling(x.v.h) /\ Crash("UserDataSerialize", x.v.h)
            \/ IF ~Is(x.v.h, "BODY")
               THEN \* assert(IsBody()) fails
                    /\ crashed' = TRUE
                    /\ ret' = Ret("UserDataSerialize", x.v.h, x, 0, <<>>, "assert", Null, 0,
                                  IsReads(x.v.h))
                    /\ UNCHANGED <<alive, money, dockedWith, adverts, slots, handles,
                                   g_bodies, issued>>
               ELSE LET b == SerializeTarget(x.v.h)
                        out == OWPayload(LookupBodyId(g_bodies, b))
                    IN /\ g_bodies' = LookupBodyRecord(g_bodies, b)
                       /\ issued' = [issued EXCEPT ![handles[x.v.h].m_obj] = out]
                       /\ ret' = Ret("UserDataSerialize", x.v.h, x, 1, out, "", Null, 0,
                                     IsReads(x.v.h))
                       /\ UNCHANGED <<alive, money, dockedWith, adverts, slots, handles,
                                      crashed>>
       ELSE IF x.kind = "SBodyPath"
       THEN /\ ret' = Ret("UserDataSerialize", 0, x, 1, SBodyPathTag \o SBodyPathSerialize(x.v),
                          "", Null, 0, {})
            /\ Quiet
       ELSE IF x.kind = "SysLoc"
       THEN /\ ret' = Ret("UserDataSerialize", 0, x, 1, SysLocTag \o SysLocSerialize(x.v),
                          "", Null, 0, {})
            /\ Quiet
       ELSE /\ ret' = UnknownUserdata(x)
            /\ Quiet

\* ----------------------------------------------------- UserDataUnserialize
\* the prefix lengths and offsets of lines 159..171
OWTagLen == 14
SBodyPathTagLen == 10
SysLocTagLen == 7

\* which branch of UserDataUnserialize a string takes
TagOf(str) ==
    IF substr(str, 0, OWTagLen) = OWTag THEN "ObjectWrapper"
    ELSE IF substr(str, 0, SBodyPathTagLen) = SBodyPathTag THEN "SBodyPath"
    ELSE IF substr(str, 0, SysLocTagLen) = SysLocTag THEN "SysLoc"
    ELSE "none"

\* an index read as if ids started at 1
PayloadIdx_offByOne(str) == ToSizeT(atoi(substrFrom(str, OWTagLen))) + 1

\* size_t idx = atoi(str.substr(14).c_str())
PayloadIdx(str) == ToSizeT(atoi(substrFrom(str, OWTagLen)))

\* the strings script code may hand to UserDataUnserialize
DecodeInputs ==
    {OWPayload(i) : i \in {0, 1, 2, 12}}
    \cup {OWTag \o <<"-", "1", NL>>}
    \cup {SBodyPathTag \o SBodyPathSerialize(p) : p \in SBodyPaths}
    \cup {SysLocTag \o SysLocSerialize(l) : l \in SysLocs}
    \cup {BogusTag \o <<"x", "y", "z">>}

\* script code passes one of these strings, or hands the string that
\* UserDataSerialize has just returned straight back
SerializedJustNow == ret.op = "UserDataSerialize" /\ ret.n = 1

UserDataUnserialize(str) ==
    /\ UNCHANGED equipVars
    /\ ~crashed
    /\ IF SerializedJustNow THEN str = ret.val ELSE ret = NoRet
    /\ IF TagOf(str) = "ObjectWrapper"
       THEN LET b == LookupBodyAt(g_bodies, PayloadIdx(str)) IN
            /\ FreeHandles # {}
            /\ ObjectWrapper(NewHandle, b, Live(b))
            /\ ret' = IF crashed'
                      THEN Ret("UserDataUnserialize", 0, str, 0, <<>>, "crash", b, 0, {})
                      ELSE Ret("UserDataUnserialize", 0, str, 1, <<>>, "", b, NewHandle, {})
            /\ UNCHANGED <<alive, money, dockedWith, adverts, g_bodies, issued>>
       ELSE IF TagOf(str) = "SBodyPath"
       THEN /\ ret' = Ret("UserDataUnserialize", 0, str, 1,
                          [kind |-> "SBodyPath",
                           v |-> SBodyPathUnserialize(substrFrom(str, SBodyPathTagLen))],
                          "", Null, 0, {})
            /\ Quiet
       ELSE IF TagOf(str) = "SysLoc"
       THEN /\ ret' = Ret("UserDataUnserialize", 0, str, 1,
                          [kind |-> "SysLoc",
                           v |-> SysLocUnserialize(substrFrom(str, SysLocTagLen))],
                          "", Null, 0, {})
            /\ Quiet
       ELSE \* return 0
            /\ ret' = Ret("UserDataUnserialize", 0, str, 0, <<>>, "", Null, 0, {})
            /\ Quiet

\* ------------------------------------------------------------------ LuaPi
\* LuaPi::GetPlayer
GetPlayer ==
    /\ UNCHANGED equipVars
    /\ Idle
    /\ FreeHandles # {}
    /\ ObjectWrapper(NewHandle, PlayerObj, Live(PlayerObj))
    /\ ret' = IF crashed' THEN Ret("GetPlayer", 0, NoArg, 0, <<>>, "crash", PlayerObj, 0, {})
              ELSE Ret("GetPlayer", 0, NoArg, 1, <<>>, "", PlayerObj, NewHandle, {})
    /\ UNCHANGED <<alive, money, dockedWith, adverts, g_bodies, issued>>

Unborn == {o \in Objects : alive[o] = "unborn"}

\* LuaPi::SpawnShip: known says ShipType::Get found the type, entered says
\* due <= Pi::GetGameTime(), building says Space::IsSystemBeingBuilt()
SpawnShip(known, entered, building) ==
    /\ UNCHANGED equipVars
    /\ Idle
    /\ IF ~known
       THEN /\ ret' = Ret("SpawnShip", 0, NoArg, 2, <<>>, "Unknown ship type", Null, 0, {})
            /\ Quiet
       ELSE IF entered /\ ~building
       THEN /\ ret' = Ret("SpawnShip", 0, NoArg, 2, <<>>, "Insufficient time to generate ship entry",
                          Null, 0, {PlayerObj})
            /\ Quiet
       ELSE /\ Unborn # {} /\ FreeHandles # {}
            /\ LET ship == CHOOSE o \in Unborn : \A k \in Unborn : o <= k IN
                 /\ alive' = [alive EXCEPT ![ship] = "live"]
                 /\ ObjectWrapper(NewHandle, ship, TRUE)
                 /\ ret' = Ret("SpawnShip", 0, NoArg, 1, <<>>, "", ship, NewHandle, {PlayerObj})
            /\ UNCHANGED <<money, dockedWith, adverts, g_bodies, issued>>

\* --------------------------------------------------------- the specification
\* the arguments script code passes to SetMoney and to the advert calls
MoneyInputs == {3}
AdvertRefs == {1}

Next ==
    \/ \E o \in Objects : DestroyObject(o)
    \/ \E s \in Objects : SetDocked(s)
    \/ \E h \in Handles : DestroyHandle(h)
    \/ \E h \in Handles : IsBody(h)
    \/ \E h \in Handles : GetMoney(h)
    \/ \E h \in Handles, m \in MoneyInputs : SetMoney(h, m)
    \/ \E h \in Handles : GetLabel(h)
    \/ \E h \in Handles, r \in AdvertRefs : SpaceStationAddAdvert(h, r)
    \/ \E h \in Handles, r \in AdvertRefs : SpaceStationRemoveAdvert(h, r)
    \/ \E h \in Handles : GetSBody(h)
    \/ \E h \in Handles : GetDockedWith(h)
    \/ ResetRegistry
    \/ \E x \in LuaValues : UserDataSerialize(x)
    \/ \E str \in (IF SerializedJustNow THEN {ret.val} ELSE DecodeInputs) : UserDataUnserialize(str)
    \/ TakeResults
    \/ GetPlayer
    \/ \E known, entered, building \in BOOLEAN : SpawnShip(known, entered, building)

\* the binding layer runs; its calls leave the EquipSet alone
Spec == Init /\ [][Next]_allVars

\* ================================================================== EquipSet
\* std::vector<Equip::Type>(n): n elements, each Equip::NONE
NoneVector(n) == [i \in 1..n |-> EquipNone]

\* EquipSet::GetSlotSize
GetSlotSize(eq, s) == Len(eq[s])
\* EquipSet::Get(s)
Get(eq, s) == IF Len(eq[s]) = 0 THEN EquipNone ELSE eq[s][1]
\* EquipSet::Get(s, idx)
GetAt(eq, s, idx) == eq[s][idx + 1]
\* EquipSet::Count
Count(eq, s, e) == Cardinality({i \in 1..Len(eq[s]) : eq[s][i] = e})
\* EquipSet::FreeSpace
FreeSpace(eq, s) == Cardinality({i \in 1..Len(eq[s]) : eq[s][i] = EquipNone})

\* a loop that appends what found no free place
RECURSIVE AddLoop_pushBack(_, _, _, _, _)
AddLoop_pushBack(v, e, num, i, numDone) ==
    IF numDone = num THEN [v |-> v, numDone |-> numDone]
    ELSE IF i >= Len(v)
    THEN IF num > numDone /\ e # EquipNone
         THEN AddLoop_pushBack(Append(v, e), e, num, i + 1, numDone + 1)
         ELSE [v |-> v, numDone |-> numDone]
    ELSE IF v[i + 1] = EquipNone
    THEN AddLoop_pushBack([v EXCEPT ![i + 1] = e], e, num, i + 1, numDone + 1)
    ELSE AddLoop_pushBack(v, e, num, i + 1, numDone)

\* the loop of Add from index i on, with numDone places filled so far
RECURSIVE AddLoop(_, _, _, _, _)
AddLoop(v, e, num, i, numDone) ==
    IF i >= Len(v) \/ numDone = num THEN [v |-> v, numDone |-> numDone]
    ELSE IF v[i + 1] = EquipNone
    THEN AddLoop([v EXCEPT ![i + 1] = e], e, num, i + 1, numDone + 1)
    ELSE AddLoop(v, e, num, i + 1, numDone)

\* a loop that forgets num-- and so never reaches num == 0
RECURSIVE RemoveLoop_noCountdown(_, _, _, _, _)
RemoveLoop_noCountdown(v, e, num, i, numDone) ==
    IF i >= Len(v) \/ num = 0 THEN [v |-> v, numDone |-> numDone]
    ELSE IF v[i + 1] = e
    THEN RemoveLoop_noCountdown([v EXCEPT ![i + 1] = EquipNone], e, num, i + 1, numDone + 1)
    ELSE RemoveLoop_noCountdown(v, e, num, i + 1, numDone)

\* the loop of Remove from index i on, with num still to remove
RECURSIVE RemoveLoop(_, _, _, _, _)
RemoveLoop(v, e, num, i, numDone) ==
    IF i >= Len(v) \/ num = 0 THEN [v |-> v, numDone |-> numDone]
    ELSE IF v[i + 1] = e
    THEN RemoveLoop([v EXCEPT ![i + 1] = EquipNone], e, num - 1, i + 1, numDone + 1)
    ELSE RemoveLoop(v, e, num, i + 1, numDone)

\* EquipSet::InitSlotSizes(t)
InitSlotSizes(t) ==
    /\ equip' = [s \in EquipSlots |-> NoneVector(t[s])]
    /\ slotCapacity' = t
    /\ eret' = ERet("InitSlotSizes", "", 0, EquipNone, 0, 0, TRUE)
    /\ UNCHANGED vars

\* EquipSet::Set(s, idx, e), called with an index inside the slot
Set(s, idx, e) ==
    /\ idx < GetSlotSize(equip, s)
    /\ equip' = [equip EXCEPT ![s][idx + 1] = e]
    /\ eret' = ERet("Set", s, idx, e, 0, 0, TRUE)
    /\ UNCHANGED <<slotCapacity, vars>>

\* EquipSet::Add(e, num)
Add(e, num) ==
    LET s == SlotOf(e)
        r == AddLoop(equip[s], e, num, 0, 0)
    IN /\ equip' = [equip EXCEPT ![s] = r.v]
       /\ eret' = ERet("Add", s, 0, e, num, r.numDone = num, r.numDone # 0)
       /\ UNCHANGED <<slotCapacity, vars>>

\* EquipSet::Add(e)
AddOne(e) == Add(e, 1)

\* EquipSet::Remove(e, num)
Remove(e, num) ==
    LET s == SlotOf(e)
        r == RemoveLoop(equip[s], e, num, 0, 0)
    IN /\ equip' = [equip EXCEPT ![s] = r.v]
       /\ eret' = ERet("Remove", s, 0, e, num, r.numDone, TRUE)
       /\ UNCHANGED <<slotCapacity, vars>>

NextEquip ==
    \/ \E t \in ShipTypes : InitSlotSizes(t)
    \/ \E s \in EquipSlots, idx \in 0..(MaxSlotSize - 1), e \in EquipTypes : Set(s, idx, e)
    \/ \E e \in EquipTypes, num \in Nums : Add(e, num)
    \/ \E e \in EquipTypes : AddOne(e)
    \/ \E e \in EquipTypes, num \in Nums : Remove(e, num)

\* calls on one EquipSet; the binding layer is left alone
SpecEquip == Init /\ [][NextEquip]_allVars

\* ================================================================ the claims
BaseVars == <<alive, money, dockedWith, adverts, slots, handles, g_bodies>>
Detached(h) == Exists(h) /\ handles[h].m_obj = Null /\ handles[h].m_delCon = Null
DeadObjects == {o \in Objects : alive[o] = "dead"}

\* C1: a handle built over a live object is live right after construction; a
\* handle goes from live to not-live only in the step in which its object is
\* deleted, it does so in that step, and a not-live handle never becomes live.
C1_LiveUntilDeletion ==
    [][\A h \in Handles :
        /\ (handles[h].st = "none" /\ handles'[h].st = "alive"
              /\ ret'.obj # Null /\ alive'[ret'.obj] = "live")
           => handles'[h].m_obj = ret'.obj
        /\ (Exists(h) /\ handles'[h].st = "alive") =>
              /\ (handles[h].m_obj # Null /\ handles'[h].m_obj = Null)
                 => (alive[handles[h].m_obj] = "live" /\ alive'[handles[h].m_obj] = "dead")
              /\ (handles[h].m_obj # Null /\ alive[handles[h].m_obj] = "live"
                    /\ alive'[handles[h].m_obj] = "dead")
                 => handles'[h].m_obj = Null
              /\ handles[h].m_obj = Null => handles'[h].m_obj = Null
    ]_vars

\* a handle that was live and has been detached by its object's deletion
C1_Witness == \E h \in Handles : Detached(h) /\ DeadObjects # {}

\* C2: every existing handle's m_obj is null or a live object.
C2_NoDanglingTarget ==
    \A h \in Handles : Exists(h) => (handles[h].m_obj = Null \/ Live(handles[h].m_obj))

\* C3: deleting an object leaves every handle over it not-live, and destroying a
\* handle changes no other handle.
C3_AllHandlesDetach ==
    [][/\ \A o \in Objects : (alive[o] = "live" /\ alive'[o] = "dead") =>
            \A h \in Handles : (Exists(h) /\ handles[h].m_obj = o) => handles'[h].m_obj = Null
       /\ \A h \in Handles : (Exists(h) /\ handles'[h].st = "freed") =>
            \A k \in Handles \ {h} : handles'[k] = handles[k]
    ]_vars

\* two handles over the one object that has been deleted, both detached
C3_Witness ==
    /\ \A h \in 1..2 : Detached(h)
    /\ Cardinality(DeadObjects) = 1

MethodOps == {"IsBody", "GetMoney", "SetMoney", "GetLabel", "SpaceStationAddAdvert",
              "SpaceStationRemoveAdvert", "GetSBody", "GetDockedWith"}

\* C4: a method called on a detached handle reads no object, changes no state
\* and returns its neutral result: IsBody false, GetMoney 0, GetLabel "", GetSBody
\* and GetDockedWith nothing.
C4_DetachedNeutral ==
    [][(ret = NoRet /\ ret'.op \in MethodOps /\ handles[ret'.h].m_obj = Null) =>
          /\ UNCHANGED BaseVars
          /\ ~crashed'
          /\ ret'.err = "" /\ ret'.reads = {} /\ ret'.made = 0
          /\ ret'.op = "IsBody" => ret'.val = FALSE
          /\ ret'.op = "GetMoney" => ret'.val = 0
          /\ ret'.op = "GetLabel" => ret'.val = ""
          /\ ret'.op \in {"GetSBody", "GetDockedWith", "SetMoney", "SpaceStationAddAdvert",
                          "SpaceStationRemoveAdvert"} => ret'.n = 0
    ]_vars

\* GetMoney answers 0 through a detached handle whose ship had money
C4_Witness ==
    /\ ret.op = "GetMoney" /\ Detached(ret.h) /\ ret.val = 0
    /\ \E o \in DeadObjects : money[o] > 0

\* C5: decoding the string that encoding a value has just returned gives, for a
\* handle over a live object, a new live handle over the same object, subscribed
\* to it; for an SBodyPath or a SysLoc, a value of the same kind with equal fields.
C5_RoundTrip ==
    [][/\ (SerializedJustNow /\ ret'.op = "UserDataUnserialize") =>
            IF ret.arg.kind = "ObjectWrapper"
            THEN Live(handles[ret.h].m_obj) =>
                   /\ ret'.err = "" /\ ret'.n = 1
                   /\ ret'.made \in Handles \ {ret.h}
                   /\ handles'[ret'.made].st = "alive"
                   /\ handles'[ret'.made].m_obj = handles[ret.h].m_obj
                   /\ handles'[ret'.made].m_delCon = handles[ret.h].m_obj
            ELSE /\ ret'.err = "" /\ ret'.n = 1
                 /\ ret'.val = [kind |-> ret.arg.kind, v |-> ret.arg.v]
       \* the same later in the pass, while the object is live
       /\ (ret = NoRet /\ ret'.op = "UserDataUnserialize") =>
            \A o \in Objects : (Live(o) /\ issued[o] # NoPayload /\ issued[o] = ret'.arg) =>
                   /\ ret'.err = "" /\ ret'.n = 1 /\ ret'.made \in Handles
                   /\ handles[ret'.made].st = "none"
                   /\ handles'[ret'.made] = [st |-> "alive", m_obj |-> o, m_delCon |-> o]
    ]_vars

\* a handle has been decoded from the payload its object was encoded to
C5_Witness ==
    /\ ret.op = "UserDataUnserialize" /\ ret.made \in Handles
    /\ \E k \in Handles \ {ret.made} :
          /\ Exists(k) /\ Live(handles[k].m_obj)
          /\ handles[ret.made].m_obj = handles[k].m_obj
          /\ ret.arg = issued[handles[k].m_obj]

DecodedHandlePayload == ret.op = "UserDataUnserialize" /\ TagOf(ret.arg) = "ObjectWrapper"

\* C6: decoding an ObjectWrapper payload whose id this pass never gave out fails
\* with UnresolvedReference and makes no handle.
C6_UnknownIdFails ==
    (DecodedHandlePayload /\ PayloadIdx(ret.arg) >= Len(g_bodies))
    => (ret.err = "UnresolvedReference" /\ ret.made = 0 /\ ~crashed)

\* C7: decoding the payload of an object that was encoded in this pass and has
\* since been deleted fails with UnresolvedReference and makes no handle.
C7_DeletedObjectFails ==
    (DecodedHandlePayload /\ PayloadIdx(ret.arg) < Len(g_bodies)
       /\ alive[g_bodies[PayloadIdx(ret.arg) + 1]] = "dead")
    => (ret.err = "UnresolvedReference" /\ ret.made = 0 /\ ~crashed)

\* C8: decoding a string whose tag is none of the three fails with an error
\* reported to the caller.
C8_UnknownTagFails ==
    (ret.op = "UserDataUnserialize" /\ TagOf(ret.arg) = "none")
    => ret.err \in {"UnsupportedKind", "MalformedPayload"}

\* C9: encoding a live object that was already encoded in this pass, through any
\* handle over it, returns the payload it was encoded to before.
C9_SameIdWithinPass ==
    [][(ret = NoRet /\ ret'.op = "UserDataSerialize" /\ ret'.h \in Handles
          /\ Live(handles[ret'.h].m_obj) /\ issued[handles[ret'.h].m_obj] # NoPayload)
       => (ret'.n = 1 /\ ret'.val = issued[handles[ret'.h].m_obj])
    ]_vars

\* the first object of the index is encoded again after another object was
\* encoded, and gets its first payload again
C9_Witness ==
    /\ ret.op = "UserDataSerialize" /\ ret.h \in Handles /\ ret.val = OWPayload(0)
    /\ Len(g_bodies) = 2
    /\ Live(handles[ret.h].m_obj) /\ g_bodies[1] = handles[ret.h].m_obj

\* C10: no object's onDelete holds a slot of a handle that has been destroyed.
C10_NoSlotOfDestroyedHandle ==
    \A o \in Objects : \A i \in 1..Len(slots[o]) : Exists(slots[o][i])

\* the only handle ever made was over the spawned ship; the handle has been
\* destroyed and the ship deleted
C10_Witness ==
    /\ handles[1].st = "freed" /\ handles[2].st = "none"
    /\ alive[3] = "dead"

\* C11: destroying a handle that its object's deletion has detached raises no
\* error, frees the handle and changes nothing else: no other handle, no object,
\* no slot list, no registry entry; and disconnecting such a handle once more
\* changes nothing at all.
C11_DetachedDestroySafe ==
    [][\A h \in Handles :
        /\ (Detached(h) /\ ret = NoRet /\ ret'.op = "~ObjectWrapper" /\ ret'.h = h) =>
              /\ ~crashed' /\ ret'.err = ""
              /\ handles'[h].st = "freed"
              /\ \A k \in Handles \ {h} : handles'[k] = handles[k]
              /\ UNCHANGED <<alive, money, dockedWith, adverts, slots, g_bodies, issued>>
        /\ Detached(h) =>
              Disconnect([hs |-> handles, sl |-> slots], h) = [hs |-> handles, sl |-> slots]
    ]_vars

\* two handles were detached by the deletion of the one object that is dead, and
\* one of them has just been destroyed
C11_Witness ==
    /\ ret.op = "~ObjectWrapper" /\ ret.err = "" /\ ret.obj = Null /\ ret.val = Null
    /\ handles[ret.h].st = "freed"
    /\ \E k \in Handles \ {ret.h} : Detached(k)
    /\ Cardinality(DeadObjects) = 1

\* C12: when an object is deleted, OnDelete is called for every handle connected
\* to its onDelete at that moment, once each and in connection order, although
\* each call disconnects its own slot while the emission runs; every one of
\* these handles is detached by the step and the object's slot list ends empty.
C12_EachSubscriberOnceInOrder ==
    [][\A o \in Objects : (alive[o] = "live" /\ alive'[o] = "dead") =>
          /\ ret'.op = "~Object" /\ ret'.obj = o
          /\ ret'.val = slots[o]
          /\ \A i, j \in 1..Len(slots[o]) : slots[o][i] = slots[o][j] => i = j
          /\ \A i \in 1..Len(slots[o]) :
                /\ handles[slots[o][i]].m_obj = o
                /\ handles'[slots[o][i]].m_obj = Null
                /\ handles'[slots[o][i]].m_delCon = Null
          /\ slots'[o] = <<>>
    ]_vars

\* an object with two connected handles has just been deleted and both
\* OnDelete calls were made
C12_Witness ==
    /\ ret.op = "~Object" /\ Len(ret.val) = 2
    /\ \A h \in Handles : Detached(h)

RegisteredKinds == {"ObjectWrapper", "SBodyPath", "SysLoc"}

\* C13: encoding a value that is none of ObjectWrapper, SBodyPath and SysLoc
\* fails with an error: no string is returned, the id table gets no entry and
\* nothing else changes.
C13_UnknownKindFails ==
    [][(ret = NoRet /\ ret'.op = "UserDataSerialize" /\ ret'.err # "crash"
          /\ ret'.arg.kind \notin RegisteredKinds) =>
          /\ ret'.err \in {"Error", "luaL_checktype"}
          /\ ret'.n = 0 /\ ret'.val = <<>>
          /\ g_bodies' = g_bodies /\ issued' = issued
          /\ UNCHANGED BaseVars
    ]_vars

\* an unknown userdata was refused while the id table held an entry
C13_Witness ==
    /\ ret.op = "UserDataSerialize" /\ ret.err = "Error"
    /\ ret.arg.kind = "SoundEvent"
    /\ Len(g_bodies) = 1

\* C14: GetDockedWith on a handle over a live ship S docked with a live object D
\* makes a handle over D, connected to D's onDelete and not to S's, and leaves
\* the handle it was called on as it was.  Deleting an object changes no handle
\* over another object and no other object's slot list; destroying a handle
\* changes no other handle and removes only its own slot.
C14_DerivedHandleIndependent ==
    [][/\ (ret = NoRet /\ ret'.op = "GetDockedWith" /\ ret'.made # 0
            /\ Live(handles[ret'.h].m_obj) /\ Live(dockedWith[handles[ret'.h].m_obj])) =>
            LET S == handles[ret'.h].m_obj
                D == dockedWith[S]
                d == ret'.made
            IN /\ D # S
               /\ handles[d].st = "none"
               /\ handles'[d] = [st |-> "alive", m_obj |-> D, m_delCon |-> D]
               /\ slots'[D] = Append(slots[D], d)
               /\ slots'[S] = slots[S]
               /\ handles'[ret'.h] = handles[ret'.h]
       /\ \A o \in Objects : (alive[o] = "live" /\ alive'[o] = "dead") =>
            /\ \A h \in Handles : handles[h].m_obj # o => handles'[h] = handles[h]
            /\ \A p \in Objects \ {o} : slots'[p] = slots[p]
       /\ \A h \in Handles : (Exists(h) /\ handles'[h].st = "freed") =>
            /\ \A k \in Handles \ {h} : handles'[k] = handles[k]
            /\ \A p \in Objects :
                  slots'[p] = SelectSeq(slots[p], LAMBDA k : k # h)
    ]_vars

\* the handle of the spawned ship got a second handle from GetDockedWith; the
\* ship has been deleted: its handle is detached, the one over the station is
\* live and connected
C14_Witness ==
    /\ Detached(1) /\ alive[3] = "dead"
    /\ handles[2] = [st |-> "alive", m_obj |-> StationObj, m_delCon |-> StationObj]
    /\ Live(StationObj) /\ slots[StationObj] = <<2>>

\* the call before this state encoded a handle and returned a string
EncodedHandle ==
    /\ ret.op = "UserDataSerialize" /\ ret.n = 1 /\ ret.arg.kind = "ObjectWrapper"
\* the id the table holds for the object of the handle just encoded
EncodedId == (CHOOSE i \in 1..Len(g_bodies) : g_bodies[i] = handles[ret.h].m_obj) - 1
\* what follows the 14 characters of the tag line
EncodedBody == SubSeq(ret.val, 15, Len(ret.val))
AllDigits(s) == s # <<>> /\ \A i \in 1..Len(s) : IsDigit(s[i])

ConstructingOps == {"GetPlayer", "SpawnShip", "GetDockedWith", "UserDataUnserialize"}

\* C16: a call that would build a handle over an object that has been deleted
\* fails with InvalidEntity instead: it makes no handle and the process goes on.
C16_DeadEntityRefused ==
    (ret.op \in ConstructingOps /\ ret.obj # Null /\ alive[ret.obj] = "dead")
    => (ret.err = "InvalidEntity" /\ ret.made = 0 /\ ~crashed)

\* handle h has a slot connected to o's onDelete
Subscribed(h, o) == \E i \in 1..Len(slots[o]) : slots[o][i] = h

\* C17: an existing handle is connected to some object's onDelete exactly when
\* its m_obj is set, and then to the onDelete of the object m_obj points at and
\* to no other.
C17_SubscribedIffLive ==
    \A h \in Handles : Exists(h) =>
       /\ IsLive(h) <=> \E o \in Objects : Subscribed(h, o)
       /\ \A o \in Objects : Subscribed(h, o) => handles[h].m_obj = o

\* C18: assert(IsBody()) of UserDataSerialize holds for every handle script code
\* passes in, a handle whose object has been deleted included; stated for the
\* handles whose constructor ran on a live object.
C18_AssertHolds ==
    (ret.op = "UserDataSerialize" /\ ret.h \in Handles /\ handles[ret.h].m_delCon # Wild)
    => ret.err # "assert"

\* ------------------------------------------------------ claims on EquipSet
\* the positions of slot s that hold something: the sum of Count(s, e) over
\* every e but Equip::NONE
RECURSIVE SumCount(_, _, _)
SumCount(eq, s, types) ==
    IF types = {} THEN 0
    ELSE LET e == CHOOSE x \in types : TRUE
         IN Count(eq, s, e) + SumCount(eq, s, types \ {e})
Min(a, b) == IF a <= b THEN a ELSE b

\* C19: whatever Add, Remove and Set calls were made since InitSlotSizes, every
\* slot has the size InitSlotSizes gave it, and its free places and the places
\* counted for the types other than NONE add up to that size.
C19_SlotSizeKept ==
    \A s \in EquipSlots :
       /\ GetSlotSize(equip, s) = slotCapacity[s]
       /\ FreeSpace(equip, s) + SumCount(equip, s, EquipTypes \ {EquipNone})
            = GetSlotSize(equip, s)

\* a drive was Set into the cargo slot beside one cargo item, and Remove has
\* taken the cargo item out
C19_Witness ==
    /\ eret.op = "Remove" /\ eret.val = 1
    /\ equip["SLOT_CARGO"] = <<"DRIVE_CLASS1", EquipNone>>
    /\ GetSlotSize(equip, "SLOT_ENGINE") = 1

\* C20: for e other than NONE and num >= 0, with s the slot of e and f its free
\* places before the call: Add(e, num) returns true exactly when f >= num and
\* turns min(num, f) free places into e, also when it returns false;
\* Remove(e, num) returns min(num, Count(s, e)), lowers Count(s, e) and raises
\* FreeSpace(s) by that number; both leave the other slot and the counts of the
\* other types alone.
C20_AddRemoveExact ==
    [][(eret'.op \in {"Add", "Remove"} /\ eret'.e # EquipNone /\ eret'.num >= 0) =>
        LET e == eret'.e
            num == eret'.num
            s == SlotOf(e)
            f == FreeSpace(equip, s)
            c == Count(equip, s, e)
            k == IF eret'.op = "Add" THEN Min(num, f) ELSE 0 - Min(num, c)
        IN /\ eret'.op = "Add" => eret'.val = (f >= num)
           /\ eret'.op = "Remove" => eret'.val = Min(num, c)
           /\ Count(equip', s, e) = c + k
           /\ FreeSpace(equip', s) = f - k
           /\ \A i \in 1..Len(equip[s]) :
                 equip'[s][i] # equip[s][i] =>
                    IF eret'.op = "Add"
                    THEN equip[s][i] = EquipNone /\ equip'[s][i] = e
                    ELSE equip[s][i] = e /\ equip'[s][i] = EquipNone
           /\ \A p \in EquipSlots \ {s} : equip'[p] = equip[p]
           /\ \A x \in EquipTypes \ {e, EquipNone} : Count(equip', s, x) = Count(equip, s, x)
           /\ Len(equip'[s]) = Len(equip[s])
    ]_equipVars

\* Add(HYDROGEN, 2) found one free place in the cargo slot: it returned false
\* and the place is filled
C20_Witness ==
    /\ eret.op = "Add" /\ eret.e = "HYDROGEN" /\ eret.num = 2 /\ eret.val = FALSE
    /\ equip["SLOT_CARGO"] = <<"METAL_ORE", "HYDROGEN">>

====
